---------------------------- MODULE Spec2Model ----------------------------
(***************************************************************************)
(* Model of the CloudFormation stack manager of mu (package common):       *)
(*   cloudformationStackManager.AwaitFinalStatus  (the Status Resolver)    *)
(*   cloudformationStackManager.UpsertStack       (the Upsert Coordinator) *)
(* The backend (cfnAPI) is the environment: every DescribeStacks,          *)
(* CreateStack, UpdateStack and WaitUntil... call is one atomic step whose *)
(* answer is drawn from the set of answers the interface can give.         *)
(***************************************************************************)
EXTENDS Integers, Sequences, FiniteSets, TLC

\* ------------------------------------------------------------------ bounds
\* Largest number of stacks one DescribeStacks answer carries.
MaxStacks == 2

\* The longest StageStates list and the longest ActionStates list.
MaxStages == 2

MaxActions == 2

\* --------------------------------------------------------------- constants
\* The callers (goroutines) that invoke the manager; Main is the one that
\* makes its calls one after the other.
Callers == {"c1", "c2"}

Main == "c1"

\* Stack identifiers.
Names == {"demo-stack", "other-stack"}

\* The statuses the switch of AwaitFinalStatus waits on.
CreateFamily == {"REVIEW_IN_PROGRESS", "CREATE_IN_PROGRESS", "ROLLBACK_IN_PROGRESS"}

DeleteFamily == {"DELETE_IN_PROGRESS"}

UpdateFamily == {"UPDATE_IN_PROGRESS", "UPDATE_ROLLBACK_IN_PROGRESS",
                 "UPDATE_COMPLETE_CLEANUP_IN_PROGRESS",
                 "UPDATE_ROLLBACK_COMPLETE_CLEANUP_IN_PROGRESS"}

Transitional == CreateFamily \cup DeleteFamily \cup UpdateFamily

\* The statuses of the switch's "no op" case.
Terminal == {"CREATE_FAILED", "CREATE_COMPLETE", "ROLLBACK_FAILED",
             "ROLLBACK_COMPLETE", "DELETE_FAILED", "DELETE_COMPLETE",
             "UPDATE_COMPLETE", "UPDATE_ROLLBACK_FAILED",
             "UPDATE_ROLLBACK_COMPLETE"}

\* A status string no case of the switch names (StackStatus is a *string).
UnlistedStatus == "IMPORT_IN_PROGRESS"

AllStatus == Transitional \cup Terminal \cup {UnlistedStatus}

\* The value AwaitFinalStatus returns for a stack that does not exist.
Absent == ""

\* Not yet assigned (a local variable before its assignment).
Unset == "?"

\* ------------------------------------------------------- backend answers
\* A DescribeStacks answer (resp, err): err # nil, resp == nil, and the
\* statuses of resp.Stacks.  The code reads only len(resp.Stacks) and
\* resp.Stacks[0].StackStatus, so the stacks of one answer share a status.
StackLists == {[i \in 1..n |-> s] : n \in 0..MaxStacks, s \in AllStatus}

Responses == {r \in [err : BOOLEAN, isNil : BOOLEAN, stacks : StackLists] :
                r.isNil => r.stacks = <<>>}

NoUpdatesMessage == "No updates are to be performed."

ErrorCodes == {"ValidationError", "Throttling"}

ErrorMessages == {NoUpdatesMessage, "Parameter X is required"}

\* The nil error.
NilErr == [coded |-> FALSE, code |-> "", msg |-> ""]

\* Error values: coded is whether the value implements awserr.Error (it then
\* has a Code() and a Message()); any other error has its text only.
Errors == [coded : {TRUE}, code : ErrorCodes, msg : ErrorMessages]
          \cup [coded : {FALSE}, code : {""}, msg : ErrorMessages]

ErrOrNil == Errors \cup {NilErr}

\* ------------------------------------------------------------------ inputs
Templates == {"<template-a>", "<template-b>"}

\* Parameter mappings (map[string]string).
ParameterSets == {[k \in {"Env"} |-> "dev"],
                  [k \in {"Env", "Tier"} |-> IF k = "Env" THEN "dev" ELSE "web"]}

NoTemplate == ""

NoParameters == <<>>

\* The arguments of one call.
Inputs == [op : {"UpsertStack"}, stackName : Names,
           template : Templates, stackParameters : ParameterSets]
          \cup
          [op : {"AwaitFinalStatus"}, stackName : Names,
           template : {NoTemplate}, stackParameters : {NoParameters}]

NoInput == [op |-> Unset, stackName |-> "", template |-> NoTemplate,
            stackParameters |-> NoParameters]

NoResult == [coded |-> FALSE, code |-> Unset, msg |-> ""]

\* What is remembered of the UpsertStack call that returned last: its
\* arguments, how the backend answered its CreateStack / UpdateStack
\* ("accepted", "no updates", "rejected") and whether it returned nil.
NoPrev == [inp |-> NoInput, answer |-> Unset, ok |-> FALSE]

\* ---- pipeline.go: what GetPipelineState can answer ----

PipelineNames == {"demo-pipeline", "other-pipeline"}

\* A nil *string.
NilPtr == "<nil>"

\* ActionState.CurrentRevision: a nil pointer, or a revision whose RevisionId
\* is nil or set.
NoCurrentRevision == [isNil |-> TRUE, RevisionId |-> NilPtr]

CurrentRevisions ==
  {NoCurrentRevision} \cup [isNil : {FALSE}, RevisionId : {NilPtr, "rev-1", "rev-2"}]

ActionStatesAlphabet ==
  [ActionName : {"Source"}, CurrentRevision : CurrentRevisions]
    \cup {[ActionName |-> "Build",
            CurrentRevision |-> [isNil |-> FALSE, RevisionId |-> "rev-3"]]}

ActionStateLists ==
  UNION {[1..n -> ActionStatesAlphabet] : n \in 0..MaxActions}

StageStateLists ==
  UNION {[1..n -> [ActionStates : ActionStateLists]] : n \in 0..MaxStages}

\* The error values of the lookup: nil, the query's errors, and the text of
\* line 72 followed by the pipeline name.
NoLookupErr == [text |-> "", name |-> ""]

QueryErrors == {[text |-> "PipelineNotFoundException", name |-> ""],
                [text |-> "AccessDeniedException", name |-> ""]}

NotLocated(name) == [text |-> "Can not locate revision from CodePipeline: ",
                     name |-> name]

PipelineStates == [err : QueryErrors \cup {NoLookupErr}, StageStates : StageStateLists]

NoResponse == [err |-> NoLookupErr, StageStates |-> <<>>]

\* What session.NewSession() can return: a session, or an error (for example
\* a shared config file that cannot be loaded).
NoSession == "none"

Sessions == {"session", "SharedConfigLoadError"}

VARIABLES
  pc,           \* where each caller's call stands (the backend call it is about to make)
  inp,          \* the arguments of the call
  firstSeen,    \* what the first DescribeStacks answered (a status, or why none)
  secondSeen,   \* what the re-query answered
  stackStatus,  \* the value AwaitFinalStatus returned
  parameters,   \* UpsertStack's local `parameters`
  calls,        \* the backend calls the call issued, in order
  backendErr,   \* the error CreateStack / UpdateStack returned
  result,       \* the error UpsertStack returned
  prev,         \* the UpsertStack call that returned last
  lookupPc,     \* where the revision lookup stands
  sess,         \* what session.NewSession() returned to the lookup
  pipelineName, \* its argument
  response,     \* what GetPipelineState answered
  stageIdx,     \* position of the outer range loop
  actionIdx,    \* position of the inner range loop
  revision,     \* the string the lookup returned
  lookupErr     \* the error the lookup returned

managerVars == <<pc, inp, firstSeen, secondSeen, stackStatus, parameters, calls,
                 backendErr, result, prev>>

pipelineVars == <<lookupPc, sess, pipelineName, response, stageIdx, actionIdx,
                  revision, lookupErr>>

vars == <<managerVars, pipelineVars>>

\* ------------------------------------------------------- pure functions
\* (mutant) the test without its count: any non-empty answer passes.
FirstQueryFoundAnyCount(r) == ~r.err /\ ~r.isNil /\ Len(r.stacks) >= 1

\* Line 139: err == nil && resp != nil && len(resp.Stacks) == 1
FirstQueryFound(r) == ~r.err /\ ~r.isNil /\ Len(r.stacks) = 1

\* (mutant) DELETE_FAILED listed in the delete case of the switch.
WaiterForFailedDelete(status) ==
  CASE status \in CreateFamily -> "WaitUntilStackCreateComplete"
    [] status \in DeleteFamily \cup {"DELETE_FAILED"} -> "WaitUntilStackDeleteComplete"
    [] status \in UpdateFamily -> "WaitUntilStackUpdateComplete"
    [] OTHER -> ""

\* Lines 140-172: the wait primitive the switch calls for a status ("" for none).
WaiterFor(status) ==
  CASE status \in CreateFamily -> "WaitUntilStackCreateComplete"
    [] status \in DeleteFamily -> "WaitUntilStackDeleteComplete"
    [] status \in UpdateFamily -> "WaitUntilStackUpdateComplete"
    [] OTHER -> ""

\* Lines 173-174: *resp.Stacks[0].StackStatus panics on a nil resp (nil pointer
\* dereference) and on an empty resp.Stacks (index out of range).
Panics(r) == r.isNil \/ Len(r.stacks) = 0

\* Line 174: the value returned when the dereference succeeds.
FinalStatus(r) == r.stacks[1]

\* (mutant) the re-query's answer assigned to a shadowing variable: the
\* first answer is still the one read.
RequeryShadowed(resp, answer) == resp

\* Lines 147, 152, 160: resp, err = cfnAPI.DescribeStacks(params) overwrites
\* the first answer with the re-query's.
Requery(resp, answer) == answer

\* What the first DescribeStacks answer showed to line 139: the status of
\* the one stack found, or why the test failed.
Seen(r) ==
  IF r.isNil THEN "nil response"
  ELSE IF Len(r.stacks) = 0 THEN (IF r.err THEN "error" ELSE "no stacks")
  ELSE IF r.err THEN "error with stacks"
  ELSE IF Len(r.stacks) > 1 THEN "many stacks"
  ELSE r.stacks[1]

\* What the re-query's answer showed to line 174, which reads resp.Stacks[0]
\* whatever err and len(resp.Stacks) are: the status read, or why none was.
SeenAgain(r) ==
  IF r.isNil THEN "nil response"
  ELSE IF Len(r.stacks) = 0 THEN (IF r.err THEN "error" ELSE "no stacks")
  ELSE r.stacks[1]

NotFoundKinds == {"nil response", "error", "no stacks", "error with stacks", "many stacks"}

\* (mutant) the branch of line 76 inverted.
IsCreatePathInverted(status) == status # Absent

\* (mutant) a deleted stack taken for an absent one.
IsCreatePathDeleted(status) == status \in {Absent, "DELETE_COMPLETE"}

\* Line 76: if stackStatus == "" (the create path); else the update path.
IsCreatePath(status) == status = Absent

\* (mutant) the message compared without its final period.
IsNoUpdatesOtherText(e) ==
  e.coded /\ e.code = "ValidationError" /\ e.msg = "No updates are to be performed"

\* (mutant) the message not compared at all.
IsNoUpdatesAnyValidation(e) == e.coded /\ e.code = "ValidationError"

\* Lines 117-118: the error is an awserr.Error with the no-updates signature.
IsNoUpdates(e) ==
  e.coded /\ e.code = "ValidationError" /\ e.msg = NoUpdatesMessage

\* (mutant) every UpdateStack error returned.
UpdateResultStrict(e) == e

\* Lines 116-127: what UpsertStack returns for UpdateStack's error.
UpdateResult(e) == IF e # NilErr /\ ~IsNoUpdates(e) THEN e ELSE NilErr

\* The orders in which Go's range may visit the keys of a map.
RangeOrders(m) ==
  {o \in [1..Cardinality(DOMAIN m) -> DOMAIN m] :
     \A i, j \in DOMAIN o : i # j => o[i] # o[j]}

\* (mutant) every entry built from the addresses of the loop variables: all
\* entries show the pair visited last.
buildStackParametersAliased(stackParameters, order) ==
  [i \in 1..Len(order) |->
     [ParameterKey |-> order[Len(order)],
      ParameterValue |-> stackParameters[order[Len(order)]]]]

\* Lines 52-62: one cloudformation.Parameter per map entry, in range order.
buildStackParameters(stackParameters, order) ==
  [i \in 1..Len(order) |->
     [ParameterKey |-> order[i], ParameterValue |-> stackParameters[order[i]]]]

\* Lines 134-136 and 94-96: DescribeStacksInput, also the waiters' argument.
DescribeCall(api, stackName) == [api |-> api, StackName |-> stackName]

\* Lines 80-87 and 105-112: CreateStackInput / UpdateStackInput.
MutationCall(api, p) ==
  [api |-> api, StackName |-> inp[p].stackName,
   Capabilities |-> <<"CAPABILITY_IAM">>,
   Parameters |-> parameters[p], TemplateBody |-> inp[p].template]

\* An unrecovered panic ends the program: nobody takes another step.
Crashed == \E q \in Callers : pc[q] = "panic"

Issue(p, call) == calls' = [calls EXCEPT ![p] = Append(@, call)]

\* ------------------------------------------------------------------ state
Init ==
  /\ pc = [p \in Callers |-> "idle"]
  /\ inp = [p \in Callers |-> NoInput]
  /\ firstSeen = [p \in Callers |-> Unset]
  /\ secondSeen = [p \in Callers |-> Unset]
  /\ stackStatus = [p \in Callers |-> Unset]
  /\ parameters = [p \in Callers |-> <<>>]
  /\ calls = [p \in Callers |-> <<>>]
  /\ backendErr = [p \in Callers |-> NoResult]
  /\ result = [p \in Callers |-> NoResult]
  /\ prev = NoPrev
  /\ lookupPc = "idle"
  /\ sess = NoSession
  /\ pipelineName = ""
  /\ response = NoResponse
  /\ stageIdx = 0
  /\ actionIdx = 0
  /\ revision = ""
  /\ lookupErr = NoLookupErr

\* Lines 65-66 / 132-136: a call starts; its first backend call is DescribeStacks.
Begin(p, in) ==
  /\ pc[p] = "idle"
  /\ pc' = [pc EXCEPT ![p] = "describe"]
  /\ inp' = [inp EXCEPT ![p] = in]
  /\ UNCHANGED <<firstSeen, secondSeen, stackStatus, parameters, calls,
                 backendErr, result, prev, pipelineVars>>

\* (mutant) the resolver goes on to the submission itself, whoever called it.
AwaitReturnsThenSubmits(p, status, order) ==
  /\ stackStatus' = [stackStatus EXCEPT ![p] = status]
  /\ pc' = [pc EXCEPT ![p] = IF IsCreatePath(status) THEN "create" ELSE "update"]
  /\ parameters' = [parameters EXCEPT ![p] =
                      buildStackParameters(inp[p].stackParameters, order)]

\* Lines 174/178 and 66-76: AwaitFinalStatus returns `status`.  A direct call
\* returns it to the caller; inside UpsertStack the template is read, the
\* parameters are built and the create or the update path is taken.
AwaitReturns(p, status, order) ==
  /\ stackStatus' = [stackStatus EXCEPT ![p] = status]
  /\ IF inp[p].op = "AwaitFinalStatus"
       THEN /\ pc' = [pc EXCEPT ![p] = "returned"]
            /\ UNCHANGED parameters
       ELSE /\ pc' = [pc EXCEPT ![p] =
                        IF IsCreatePath(status) THEN "create" ELSE "update"]
            /\ parameters' = [parameters EXCEPT ![p] =
                        buildStackParameters(inp[p].stackParameters, order)]

\* Lines 137-146, 148-151, 153-159, 161-178: the first DescribeStacks answers r.
DescribeStacksFirst(p, answers) ==
  /\ ~Crashed
  /\ pc[p] = "describe"
  /\ \E r \in answers, order \in RangeOrders(inp[p].stackParameters) :
       /\ firstSeen' = [firstSeen EXCEPT ![p] = Seen(r)]
       /\ Issue(p, DescribeCall("DescribeStacks", inp[p].stackName))
       /\ IF FirstQueryFound(r)
            THEN IF WaiterFor(r.stacks[1]) # ""
                   THEN /\ pc' = [pc EXCEPT ![p] = "wait"]
                        /\ UNCHANGED <<stackStatus, parameters>>
                   ELSE AwaitReturns(p, FinalStatus(r), order)
            ELSE AwaitReturns(p, Absent, order)
  /\ UNCHANGED <<inp, secondSeen, backendErr, result, prev, pipelineVars>>

\* (mutant) a failed wait is called again.
AfterWaitRetried(waitErr) == IF waitErr THEN "wait" ELSE "requery"

\* Lines 146-147, 151-152, 159-160: the wait's return value is not assigned;
\* the re-query is the next statement whatever the wait returned.
AfterWait(waitErr) == "requery"

\* Lines 146, 151, 159: the wait primitive returns; its error is dropped.
WaitUntilComplete(p) ==
  /\ ~Crashed
  /\ pc[p] = "wait"
  /\ \E waitErr \in BOOLEAN :
       /\ Issue(p, DescribeCall(WaiterFor(firstSeen[p]), inp[p].stackName))
       /\ pc' = [pc EXCEPT ![p] = AfterWait(waitErr)]
  /\ UNCHANGED <<inp, firstSeen, secondSeen, stackStatus, parameters,
                 backendErr, result, prev, pipelineVars>>

\* The first answer, which passed line 139 with the status the switch saw.
FirstResponse(p) == [err |-> FALSE, isNil |-> FALSE, stacks |-> <<firstSeen[p]>>]

\* Lines 147, 152, 160, then 173-174: the re-query answers r (its err is
\* assigned and never read) and Stacks[0] is dereferenced.
DescribeStacksAgain(p, answers) ==
  /\ ~Crashed
  /\ pc[p] = "requery"
  /\ \E r \in answers, order \in RangeOrders(inp[p].stackParameters) :
       /\ secondSeen' = [secondSeen EXCEPT ![p] = SeenAgain(r)]
       /\ Issue(p, DescribeCall("DescribeStacks", inp[p].stackName))
       /\ LET resp == Requery(FirstResponse(p), r) IN
            IF Panics(resp)
              THEN /\ pc' = [pc EXCEPT ![p] = "panic"]
                   /\ UNCHANGED <<stackStatus, parameters>>
              ELSE AwaitReturns(p, FinalStatus(resp), order)
  /\ UNCHANGED <<inp, firstSeen, backendErr, result, prev, pipelineVars>>

\* Lines 80-92: CreateStack answers e; an error is returned as it is.
SubmitCreate(p, errs) ==
  /\ ~Crashed
  /\ pc[p] = "create"
  /\ \E e \in errs :
       /\ Issue(p, MutationCall("CreateStack", p))
       /\ backendErr' = [backendErr EXCEPT ![p] = e]
       /\ IF e # NilErr
            THEN /\ result' = [result EXCEPT ![p] = e]
                 /\ pc' = [pc EXCEPT ![p] = "returned"]
            ELSE /\ pc' = [pc EXCEPT ![p] = "exists"]
                 /\ UNCHANGED result
  /\ UNCHANGED <<inp, firstSeen, secondSeen, stackStatus, parameters, prev, pipelineVars>>

\* (mutant) submissions for one identifier serialised: a caller waits while
\* another call for the same stack is past its own submission.
CreateStackSerialized(p, errs) ==
  /\ \A q \in Callers \ {p} :
       inp[q].stackName = inp[p].stackName => pc[q] \notin {"exists", "returned"}
  /\ SubmitCreate(p, errs)

\* Line 88: nothing is held or tested before the submission.
CreateStack(p, errs) == SubmitCreate(p, errs)

\* (mutant) the stack-exists wait's error returned to the caller.
ExistsResultChecked(waitErr) ==
  IF waitErr THEN [coded |-> FALSE, code |-> "", msg |-> "ResourceNotReady"] ELSE NilErr

\* Lines 98 and 127: the wait's return value is not assigned; UpsertStack
\* returns nil.
ExistsResult(waitErr) == NilErr

\* Lines 94-99 and 127: the stack-exists wait returns (error dropped); return nil.
WaitUntilStackExists(p) ==
  /\ ~Crashed
  /\ pc[p] = "exists"
  /\ \E waitErr \in BOOLEAN :
       /\ Issue(p, DescribeCall("WaitUntilStackExists", inp[p].stackName))
       /\ result' = [result EXCEPT ![p] = ExistsResult(waitErr)]
       /\ pc' = [pc EXCEPT ![p] = "returned"]
  /\ UNCHANGED <<inp, firstSeen, secondSeen, stackStatus, parameters,
                 backendErr, prev, pipelineVars>>

\* (mutant) the update path waits as the create path does.
AfterUpdateWaits(e) == IF e = NilErr THEN "exists" ELSE "returned"

\* Lines 114-127: every branch after UpdateStack is a return statement.
AfterUpdate(e) == "returned"

\* Lines 105-127: UpdateStack answers e.
UpdateStack(p, errs) ==
  /\ ~Crashed
  /\ pc[p] = "update"
  /\ \E e \in errs :
       /\ Issue(p, MutationCall("UpdateStack", p))
       /\ backendErr' = [backendErr EXCEPT ![p] = e]
       /\ result' = [result EXCEPT ![p] = UpdateResult(e)]
       /\ pc' = [pc EXCEPT ![p] = AfterUpdate(e)]
  /\ UNCHANGED <<inp, firstSeen, secondSeen, stackStatus, parameters, prev, pipelineVars>>

\* How the backend answered a CreateStack / UpdateStack.
Answer(e) ==
  IF e = NilErr THEN "accepted"
  ELSE IF e.coded /\ e.code = "ValidationError" /\ e.msg = NoUpdatesMessage
         THEN "no updates" ELSE "rejected"

\* The call's locals are discarded at return (no entity outlives a call); the
\* caller is free to call again.
Finish(p) ==
  /\ pc[p] = "returned"
  /\ prev' = IF inp[p].op = "UpsertStack"
               THEN [inp |-> inp[p], answer |-> Answer(backendErr[p]),
                     ok |-> result[p] = NilErr]
               ELSE prev
  /\ pc' = [pc EXCEPT ![p] = "idle"]
  /\ inp' = [inp EXCEPT ![p] = NoInput]
  /\ firstSeen' = [firstSeen EXCEPT ![p] = Unset]
  /\ secondSeen' = [secondSeen EXCEPT ![p] = Unset]
  /\ stackStatus' = [stackStatus EXCEPT ![p] = Unset]
  /\ parameters' = [parameters EXCEPT ![p] = <<>>]
  /\ calls' = [calls EXCEPT ![p] = <<>>]
  /\ backendErr' = [backendErr EXCEPT ![p] = NoResult]
  /\ result' = [result EXCEPT ![p] = NoResult]
  /\ UNCHANGED pipelineVars

\* The main caller calls again after its call returned.
CallInSuccession(p) ==
  \E in \in Inputs : Begin(p, in)

\* What the backend answers to the concurrent callers.
RaceStatuses == {"CREATE_IN_PROGRESS", "CREATE_COMPLETE", "UPDATE_COMPLETE"}

RaceResponses == {r \in Responses : \A i \in DOMAIN r.stacks : r.stacks[i] \in RaceStatuses}

RaceErrors == {e \in ErrOrNil : e.coded => e.code = "ValidationError"}

\* The arguments of the concurrent callers.
RaceInputs == {in \in Inputs : /\ in.op = "UpsertStack"
                               /\ in.template = "<template-a>"
                               /\ DOMAIN in.stackParameters = {"Env"}}

\* Each caller calls once, whatever the other is doing.
CallConcurrently(p) ==
  /\ ~Crashed
  /\ \E in \in RaceInputs : Begin(p, in)

Step(p, answers, errs) ==
  \/ DescribeStacksFirst(p, answers)
  \/ WaitUntilComplete(p)
  \/ DescribeStacksAgain(p, answers)
  \/ CreateStack(p, errs)
  \/ WaitUntilStackExists(p)
  \/ UpdateStack(p, errs)

Next ==
  \/ CallInSuccession(Main)
  \/ Step(Main, Responses, ErrOrNil)
  \/ Finish(Main)

Spec == Init /\ [][Next]_vars

NextRace ==
  \E p \in Callers : CallConcurrently(p) \/ Step(p, RaceResponses, RaceErrors)

SpecRace == Init /\ [][NextRace]_vars

\* ------------------------------------------------------------------ claims
Issued(p, api) == \E i \in DOMAIN calls[p] : calls[p][i].api = api

CountOf(p, api) == Cardinality({i \in DOMAIN calls[p] : calls[p][i].api = api})

Waiters == {"WaitUntilStackCreateComplete", "WaitUntilStackDeleteComplete",
            "WaitUntilStackUpdateComplete"}

Upserting(p) == inp[p].op = "UpsertStack"

\* C1 (as claimed): when the first DescribeStacks reported a Transitional
\* status, the value AwaitFinalStatus returns is never a Transitional value.
C1_NeverReturnsTransitional ==
  \A p \in Callers :
    (firstSeen[p] \in Transitional /\ stackStatus[p] # Unset)
      => stackStatus[p] \notin Transitional

\* C2: whenever AwaitFinalStatus returned Absent inside UpsertStack, the call
\* is on the create path: CreateStack is the submission it makes or has made,
\* and it neither makes nor has made an UpdateStack.
C2_AbsentCreates ==
  \A p \in Callers :
    (Upserting(p) /\ stackStatus[p] = Absent)
      => /\ ~Issued(p, "UpdateStack")
         /\ pc[p] # "update"
         /\ pc[p] = "create" \/ Issued(p, "CreateStack")

C2_Witness ==
  \E p \in Callers :
    /\ Upserting(p) /\ stackStatus[p] = Absent
    /\ firstSeen[p] = "no stacks"
    /\ Issued(p, "CreateStack") /\ pc[p] = "returned"

\* C3: whenever AwaitFinalStatus returned a Terminal status inside
\* UpsertStack, the call is on the update path: UpdateStack is the submission
\* it makes or has made, and it neither makes nor has made a CreateStack.
C3_PresentUpdates ==
  \A p \in Callers :
    (Upserting(p) /\ stackStatus[p] \in Terminal)
      => /\ ~Issued(p, "CreateStack")
         /\ pc[p] \notin {"create", "exists"}
         /\ pc[p] = "update" \/ Issued(p, "UpdateStack")

C3_Witness ==
  \E p \in Callers :
    /\ Upserting(p) /\ stackStatus[p] = "DELETE_COMPLETE"
    /\ Issued(p, "UpdateStack") /\ pc[p] = "returned"

NoUpdatesError ==
  [coded |-> TRUE, code |-> "ValidationError", msg |-> NoUpdatesMessage]

\* C4: when UpdateStack failed with code ValidationError and the no-updates
\* message, UpsertStack returns nil and the call never called CreateStack.
C4_BenignNoOp ==
  \A p \in Callers :
    (pc[p] = "returned" /\ Issued(p, "UpdateStack") /\ backendErr[p] = NoUpdatesError)
      => /\ result[p] = NilErr
         /\ ~Issued(p, "CreateStack")

C4_Witness ==
  \E p \in Callers :
    /\ pc[p] = "returned" /\ Issued(p, "UpdateStack")
    /\ stackStatus[p] = "UPDATE_COMPLETE"
    /\ backendErr[p] = NoUpdatesError /\ result[p] = NilErr

\* C5: every CreateStack failure, and every UpdateStack failure that is not
\* the coded (ValidationError, no-updates message) pair, is what UpsertStack
\* returns: the same error value, never nil.
C5_ErrorPassthrough ==
  \A p \in Callers :
    (/\ pc[p] = "returned" /\ Upserting(p)
     /\ backendErr[p] # NilErr
     /\ Issued(p, "UpdateStack") => backendErr[p] # NoUpdatesError)
      => /\ result[p] = backendErr[p]
         /\ result[p] # NilErr

C5_Witness ==
  \E p \in Callers :
    /\ pc[p] = "returned" /\ Issued(p, "UpdateStack")
    /\ backendErr[p] = [coded |-> TRUE, code |-> "ValidationError",
                        msg |-> "Parameter X is required"]
    /\ result[p] = backendErr[p]

\* C6: of two UpsertStack calls made in succession with the same stack
\* identifier, template and parameters, where the backend accepted the first
\* call's submission and rejects the second's update as "no updates", both
\* return nil.
C6_IdempotentReapply ==
  \A p \in Callers :
    (/\ pc[p] = "returned" /\ Upserting(p)
     /\ prev.inp = inp[p]
     /\ prev.answer = "accepted"
     /\ Issued(p, "UpdateStack") /\ backendErr[p] = NoUpdatesError)
      => /\ prev.ok
         /\ result[p] = NilErr

C6_Witness ==
  \E p \in Callers :
    /\ pc[p] = "returned" /\ Upserting(p)
    /\ prev.inp = inp[p] /\ prev.answer = "accepted" /\ prev.ok
    /\ firstSeen[p] = "CREATE_IN_PROGRESS" /\ stackStatus[p] = "CREATE_COMPLETE"
    /\ Issued(p, "UpdateStack") /\ backendErr[p] = NoUpdatesError
    /\ result[p] = NilErr

\* C7: when the first DescribeStacks returned an error, a nil response or a
\* number of stacks other than one, AwaitFinalStatus returned Absent without
\* panicking, after one DescribeStacks call and no wait primitive.
C7_NotFoundFirst ==
  \A p \in Callers :
    firstSeen[p] \in NotFoundKinds
      => /\ stackStatus[p] = Absent
         /\ pc[p] \notin {"describe", "wait", "requery", "panic"}
         /\ CountOf(p, "DescribeStacks") = 1
         /\ \A w \in Waiters : ~Issued(p, w)
         /\ secondSeen[p] = Unset

C7_Witness ==
  \E p \in Callers :
    /\ inp[p].op = "AwaitFinalStatus" /\ pc[p] = "returned"
    /\ firstSeen[p] = "many stacks" /\ stackStatus[p] = Absent

RequeryNotFound == {"nil response", "error", "no stacks"}

\* C8 (as claimed): when the re-query after a wait finds no stack (query
\* error, nil response or zero stacks), AwaitFinalStatus returns Absent and
\* does not panic.
C8_RequeryNotFoundIsAbsent ==
  \A p \in Callers :
    secondSeen[p] \in RequeryNotFound
      => /\ pc[p] # "panic"
         /\ stackStatus[p] = Absent

OnCreatePath(p) == pc[p] \in {"create", "exists"} \/ Issued(p, "CreateStack")

OnUpdatePath(p) == pc[p] = "update" \/ Issued(p, "UpdateStack")

\* C9: whenever AwaitFinalStatus returned after a wait on a Transitional
\* status, the value returned is the status the re-query read, not the one
\* first observed, and UpsertStack branches on that value: it is on the
\* update path unless the value is Absent, and never on both paths.
C9_BranchOnResolved ==
  \A p \in Callers :
    (firstSeen[p] \in Transitional /\ pc[p] \in {"create", "exists", "update", "returned"})
      => /\ stackStatus[p] = secondSeen[p]
         /\ Upserting(p)
              => /\ OnCreatePath(p) <=> secondSeen[p] = Absent
                 /\ OnUpdatePath(p) <=> secondSeen[p] # Absent

C9_Witness ==
  \E p \in Callers :
    /\ Upserting(p)
    /\ firstSeen[p] = "CREATE_IN_PROGRESS" /\ secondSeen[p] = "CREATE_COMPLETE"
    /\ Issued(p, "WaitUntilStackCreateComplete")
    /\ stackStatus[p] = "CREATE_COMPLETE"
    /\ Issued(p, "UpdateStack") /\ ~Issued(p, "CreateStack")

\* C10: no caller is ever held back or turned away at its submission:
\* whatever the other caller has done for the same identifier, a call that
\* resolved its status can submit its CreateStack / UpdateStack, and what it
\* returns is decided by the backend's answer to that submission alone.
C10_NoMutualExclusion ==
  \A p \in Callers :
    /\ (pc[p] = "create" /\ ~Crashed) => ENABLED CreateStack(p, RaceErrors)
    /\ (pc[p] = "update" /\ ~Crashed) => ENABLED UpdateStack(p, RaceErrors)
    /\ (pc[p] = "returned" /\ Issued(p, "CreateStack"))
         => result[p] = backendErr[p]
    /\ (pc[p] = "returned" /\ Issued(p, "UpdateStack"))
         => result[p] = UpdateResult(backendErr[p])

\* Both callers resolved Absent for one identifier and both have submitted a
\* CreateStack, neither call having returned.
C10_Witness ==
  /\ \A p, q \in Callers : inp[p].stackName = inp[q].stackName
  /\ \A p \in Callers :
       /\ stackStatus[p] = Absent
       /\ Issued(p, "CreateStack")
       /\ pc[p] = "exists"

InFlight(p) == pc[p] \in {"describe", "wait", "requery", "create", "exists", "update"}

\* The backend calls a call issues when it runs alone, as far as it has come,
\* from its own arguments and the answers it was given.
AloneCalls(p) ==
  LET name == inp[p].stackName
      describe == DescribeCall("DescribeStacks", name)
      first == IF firstSeen[p] = Unset THEN <<>> ELSE <<describe>>
      wait == IF firstSeen[p] \in Transitional /\ pc[p] # "wait"
                THEN <<DescribeCall(WaiterFor(firstSeen[p]), name)>> ELSE <<>>
      again == IF secondSeen[p] = Unset THEN <<>> ELSE <<describe>>
      submit == IF backendErr[p] = NoResult THEN <<>>
                ELSE <<MutationCall(IF stackStatus[p] = Absent THEN "CreateStack"
                                    ELSE "UpdateStack", p)>>
      exists == IF pc[p] = "returned" /\ stackStatus[p] = Absent /\ backendErr[p] = NilErr
                  THEN <<DescribeCall("WaitUntilStackExists", name)>> ELSE <<>>
  IN first \o wait \o again \o submit \o exists

\* The error a call returns when it runs alone.
AloneResult(p) ==
  IF stackStatus[p] = Absent THEN backendErr[p] ELSE UpdateResult(backendErr[p])

\* What holds of a call whether or not another call is running.
SameAsAlone(p) ==
  /\ \A i \in DOMAIN calls[p] : calls[p][i].StackName = inp[p].stackName
  /\ calls[p] = AloneCalls(p)
  /\ (pc[p] = "returned" /\ Upserting(p)) => result[p] = AloneResult(p)

\* C11 (as claimed): of two concurrent calls on different identifiers, each
\* issues the backend calls and returns the result it would alone, and names
\* its own identifier only: what it has issued is what it issues alone, and
\* while it is in flight its next backend call can be made whatever the
\* other call has done.
C11_Independent ==
  \A p, q \in Callers :
    (inp[p] # NoInput /\ inp[q] # NoInput /\ inp[p].stackName # inp[q].stackName)
      => /\ SameAsAlone(p)
         /\ InFlight(p) => ENABLED Step(p, RaceResponses, RaceErrors)

\* What is left of C11 while no call has panicked.
C11_IndependentUntilPanic ==
  \A p, q \in Callers :
    (inp[p] # NoInput /\ inp[q] # NoInput /\ inp[p].stackName # inp[q].stackName)
      => /\ SameAsAlone(p)
         /\ (InFlight(p) /\ ~Crashed) => ENABLED Step(p, RaceResponses, RaceErrors)

Mutations == {"CreateStack", "UpdateStack"}

\* The key/value pairs of a parameter mapping.
PairsOf(m) == {[ParameterKey |-> k, ParameterValue |-> m[k]] : k \in DOMAIN m}

\* C12: every CreateStack / UpdateStack request names the caller's stack
\* identifier, carries the template body, the single IAM capability and
\* exactly one pair per entry of the parameter mapping (as many pairs as
\* entries, the set of pairs being the mapping), and has the same fields
\* whichever of the two it is.
C12_RequestFidelity ==
  \A p \in Callers : \A i \in DOMAIN calls[p] :
    calls[p][i].api \in Mutations
      => LET request == calls[p][i] IN
         /\ DOMAIN request =
              {"api", "StackName", "Capabilities", "Parameters", "TemplateBody"}
         /\ request.StackName = inp[p].stackName
         /\ request.TemplateBody = inp[p].template
         /\ request.Capabilities = <<"CAPABILITY_IAM">>
         /\ Len(request.Parameters) = Cardinality(DOMAIN inp[p].stackParameters)
         /\ {request.Parameters[j] : j \in DOMAIN request.Parameters}
              = PairsOf(inp[p].stackParameters)

\* A request with two parameters, visited in the order Tier, Env.
C12_Witness ==
  \E p \in Callers : \E i \in DOMAIN calls[p] :
    /\ calls[p][i].api = "CreateStack"
    /\ inp[p].template = "<template-b>"
    /\ calls[p][i].Parameters =
         <<[ParameterKey |-> "Tier", ParameterValue |-> "web"],
           [ParameterKey |-> "Env", ParameterValue |-> "dev"]>>

\* ---- pipeline.go, getRevisionFromCodePipeline (lines 52-73) ----

\* Line 67: *actionState.CurrentRevision.RevisionId dereferences both pointers.
Dereferences(actionState) ==
  ~actionState.CurrentRevision.isNil /\ actionState.CurrentRevision.RevisionId # NilPtr

\* Line 66.
IsSource(actionState) == actionState.ActionName = "Source"

\* Line 53: session.Must panics when session.NewSession() returned an error.
MustPanics(newSession) == newSession # "session"

\* Lines 52-53: the lookup is called and creates its session.
NewSession ==
  /\ lookupPc = "idle"
  /\ \E name \in PipelineNames, newSession \in Sessions :
       /\ pipelineName' = name
       /\ sess' = newSession
       /\ lookupPc' = IF MustPanics(newSession) THEN "panic" ELSE "query"
  /\ UNCHANGED <<response, stageIdx, actionIdx, revision, lookupErr>>
  /\ UNCHANGED managerVars

\* Lines 54-63: the pipeline state is queried; a query error is returned.
GetPipelineState ==
  /\ lookupPc = "query"
  /\ \E answer \in PipelineStates :
       /\ response' = answer
       /\ IF answer.err # NoLookupErr
            THEN /\ lookupPc' = "returned"
                 /\ revision' = ""
                 /\ lookupErr' = answer.err
                 /\ UNCHANGED <<stageIdx, actionIdx>>
            ELSE /\ lookupPc' = "scan"
                 /\ stageIdx' = 1
                 /\ actionIdx' = 1
                 /\ UNCHANGED <<revision, lookupErr>>
  /\ UNCHANGED <<sess, pipelineName>>
  /\ UNCHANGED managerVars

Scanning == lookupPc = "scan" /\ stageIdx <= Len(response.StageStates)

ActionStatesHere == response.StageStates[stageIdx].ActionStates

\* Lines 65-66: an action not named "Source" is passed over.
SkipAction ==
  /\ Scanning
  /\ actionIdx <= Len(ActionStatesHere)
  /\ ~IsSource(ActionStatesHere[actionIdx])
  /\ actionIdx' = actionIdx + 1
  /\ UNCHANGED <<lookupPc, sess, pipelineName, response, stageIdx, revision, lookupErr>>
  /\ UNCHANGED managerVars

\* Lines 66-67: the first action named "Source" ends the scan.
ReturnRevision ==
  /\ Scanning
  /\ actionIdx <= Len(ActionStatesHere)
  /\ IsSource(ActionStatesHere[actionIdx])
  /\ IF Dereferences(ActionStatesHere[actionIdx])
       THEN /\ revision' = ActionStatesHere[actionIdx].CurrentRevision.RevisionId
            /\ lookupErr' = NoLookupErr
            /\ lookupPc' = "returned"
       ELSE /\ lookupPc' = "panic"
            /\ UNCHANGED <<revision, lookupErr>>
  /\ UNCHANGED <<sess, pipelineName, response, stageIdx, actionIdx>>
  /\ UNCHANGED managerVars

\* Lines 64-65: the inner loop is over; the outer loop moves on.
NextStage ==
  /\ Scanning
  /\ actionIdx > Len(ActionStatesHere)
  /\ stageIdx' = stageIdx + 1
  /\ actionIdx' = 1
  /\ UNCHANGED <<lookupPc, sess, pipelineName, response, revision, lookupErr>>
  /\ UNCHANGED managerVars

\* Line 72: both loops are over.
ReturnNotLocated ==
  /\ lookupPc = "scan"
  /\ stageIdx > Len(response.StageStates)
  /\ revision' = ""
  /\ lookupErr' = NotLocated(pipelineName)
  /\ lookupPc' = "returned"
  /\ UNCHANGED <<sess, pipelineName, response, stageIdx, actionIdx>>
  /\ UNCHANGED managerVars

\* The lookup's locals are discarded at return.
LookupReturns ==
  /\ lookupPc = "returned"
  /\ lookupPc' = "idle"
  /\ sess' = NoSession
  /\ pipelineName' = ""
  /\ response' = NoResponse
  /\ stageIdx' = 0
  /\ actionIdx' = 0
  /\ revision' = ""
  /\ lookupErr' = NoLookupErr
  /\ UNCHANGED managerVars

NextPipeline ==
  \/ NewSession
  \/ GetPipelineState
  \/ SkipAction
  \/ ReturnRevision
  \/ NextStage
  \/ ReturnNotLocated
  \/ LookupReturns

SpecPipeline == Init /\ [][NextPipeline]_vars

\* The action states of all stages, stage by stage.
RECURSIVE AllActionStates(_)
AllActionStates(stageStates) ==
  IF stageStates = <<>> THEN <<>>
  ELSE Head(stageStates).ActionStates \o AllActionStates(Tail(stageStates))

SourcePositions(actionStates) ==
  {i \in DOMAIN actionStates : actionStates[i].ActionName = "Source"}

FirstSource(actionStates) ==
  actionStates[CHOOSE i \in SourcePositions(actionStates) :
                 \A j \in SourcePositions(actionStates) : i <= j]

\* What a lookup that returned gave back, against the answer it was given.
LookupOutcome ==
  LET all == AllActionStates(response.StageStates) IN
  lookupPc = "returned" =>
    IF response.err # NoLookupErr
      THEN revision = "" /\ lookupErr = response.err
    ELSE IF SourcePositions(all) = {}
      THEN revision = "" /\ lookupErr = NotLocated(pipelineName)
    ELSE /\ revision = FirstSource(all).CurrentRevision.RevisionId
         /\ lookupErr = NoLookupErr

\* C13 (as claimed): a lookup that has its session returns, and what it
\* returns is the query error unchanged when the query failed, else the
\* current revision identifier of the first action named "Source" in stage
\* order then action order, else the not-found error naming the pipeline.
C13_RevisionLookup ==
  /\ lookupPc = "panic" => MustPanics(sess)
  /\ LookupOutcome

\* What is left of C13: every lookup that returns gives the claimed outcome,
\* and the only lookups that do not return are those that could not create
\* their session (no query is made) and those whose first "Source" action
\* has no current revision identifier.
C13_RevisionLookupWhenPresent ==
  /\ LookupOutcome
  /\ lookupPc = "panic" =>
       \/ /\ MustPanics(sess)
          /\ response = NoResponse
       \/ /\ ~MustPanics(sess)
          /\ response.err = NoLookupErr
          /\ SourcePositions(AllActionStates(response.StageStates)) # {}
          /\ ~Dereferences(FirstSource(AllActionStates(response.StageStates)))

\* A lookup that panicked at line 67, its session created and its query answered.
C13_PanicsOnMissingRevision ==
  /\ lookupPc = "panic"
  /\ sess = "session"
  /\ stageIdx >= 1

\* A revision returned from the second stage, after a "Build" action and past
\* a later "Source" action with another revision.
C13_ReturnedSecondStage ==
  /\ lookupPc = "returned"
  /\ stageIdx = 2 /\ actionIdx = 1
  /\ revision = "rev-2"
  /\ Len(response.StageStates[2].ActionStates) = 2
  /\ response.StageStates[2].ActionStates[2].CurrentRevision.RevisionId = "rev-1"

\* The most recent status a call observed: what its last DescribeStacks showed.
LastObserved(p) == IF secondSeen[p] # Unset THEN secondSeen[p] ELSE firstSeen[p]

Submitted(p) == Issued(p, "CreateStack") \/ Issued(p, "UpdateStack")

\* C14 (as claimed): UpsertStack never submits CreateStack or UpdateStack
\* when the most recent status it observed for the stack is Transitional.
C14_NoMutationInTransition ==
  \A p \in Callers :
    (Upserting(p) /\ Submitted(p)) => LastObserved(p) \notin Transitional

\* What is left of C14: a call that submits without having waited observed
\* no Transitional status; one that submits on a Transitional status observed
\* it in the re-query and takes the update path.
C14_TransitionOnlyAfterRequery ==
  \A p \in Callers :
    (Upserting(p) /\ Submitted(p) /\ LastObserved(p) \in Transitional)
      => /\ firstSeen[p] \in Transitional
         /\ secondSeen[p] \in Transitional
         /\ Issued(p, "UpdateStack")

\* The wait the claim names for each Transitional status.
WaitByFamily(status) ==
  IF status \in {"REVIEW_IN_PROGRESS", "CREATE_IN_PROGRESS", "ROLLBACK_IN_PROGRESS"}
    THEN "WaitUntilStackCreateComplete"
  ELSE IF status = "DELETE_IN_PROGRESS"
    THEN "WaitUntilStackDeleteComplete"
  ELSE "WaitUntilStackUpdateComplete"

WaitCount(p) ==
  Cardinality({i \in DOMAIN calls[p] : calls[p][i].api \in Waiters})

\* The calls of the resolver, in order, of a call that has got as far as pc[p].
ResolverCalls(p) ==
  LET describe == DescribeCall("DescribeStacks", inp[p].stackName)
      wait == DescribeCall(WaitByFamily(firstSeen[p]), inp[p].stackName)
  IN IF pc[p] = "wait" THEN <<describe>>
     ELSE IF pc[p] = "requery" THEN <<describe, wait>>
     ELSE <<describe, wait, describe>>

\* C15: when the first query reports a Transitional status the resolver
\* calls the wait of the status family once, then DescribeStacks once more,
\* and nothing else (its calls are exactly: query, that wait, query); the
\* status it returns is the one the re-query showed.  The wait is never
\* called twice, whatever it returned.
C15_WaitOnceRequeryOnce ==
  \A p \in Callers :
    firstSeen[p] \in Transitional
      => /\ SubSeq(calls[p], 1, Len(ResolverCalls(p))) = ResolverCalls(p)
         /\ WaitCount(p) <= 1
         /\ CountOf(p, "DescribeStacks") <= 2
         /\ pc[p] \in {"create", "exists", "update", "returned"}
              => stackStatus[p] = secondSeen[p]

\* An update-cleanup status waited on with the update wait, the re-query's
\* status returned by a direct call.
C15_Witness ==
  \E p \in Callers :
    /\ inp[p].op = "AwaitFinalStatus"
    /\ pc[p] = "returned"
    /\ firstSeen[p] = "UPDATE_COMPLETE_CLEANUP_IN_PROGRESS"
    /\ calls[p][2].api = "WaitUntilStackUpdateComplete"
    /\ stackStatus[p] = "UPDATE_COMPLETE"
    /\ Len(calls[p]) = 3

\* C16: when the first query reports exactly one stack in a Terminal status,
\* AwaitFinalStatus returns that status, having called DescribeStacks once
\* and no wait primitive; a direct call has made no other call at all.
C16_TerminalPassesThrough ==
  \A p \in Callers :
    firstSeen[p] \in Terminal
      => /\ stackStatus[p] = firstSeen[p]
         /\ CountOf(p, "DescribeStacks") = 1
         /\ WaitCount(p) = 0
         /\ inp[p].op = "AwaitFinalStatus"
              => /\ pc[p] = "returned"
                 /\ calls[p] = <<DescribeCall("DescribeStacks", inp[p].stackName)>>

\* A failed delete reported by the first query and returned as it is.
C16_Witness ==
  \E p \in Callers :
    /\ inp[p].op = "AwaitFinalStatus"
    /\ pc[p] = "returned"
    /\ firstSeen[p] = "DELETE_FAILED"
    /\ stackStatus[p] = "DELETE_FAILED"

\* The positions of the calls of one kind in a call's log.
PositionsOf(p, api) == {i \in DOMAIN calls[p] : calls[p][i].api = api}

\* C17: the stack-exists wait is called at most once, and only as the call
\* that follows a CreateStack that returned success; when CreateStack fails
\* UpsertStack has returned that failure with CreateStack as its last call;
\* after a successful CreateStack UpsertStack returns success with the
\* stack-exists wait as its last call, whatever that wait returned, and never
\* calls the create-complete wait after the submission.
C17_CreatePathOrdering ==
  \A p \in Callers :
    /\ CountOf(p, "WaitUntilStackExists") <= 1
    /\ \A i \in PositionsOf(p, "WaitUntilStackExists") :
         /\ i > 1
         /\ calls[p][i - 1].api = "CreateStack"
         /\ backendErr[p] = NilErr
    /\ \A i \in PositionsOf(p, "CreateStack") :
         /\ CountOf(p, "CreateStack") = 1
         /\ \A j \in DOMAIN calls[p] :
              j > i => calls[p][j].api = "WaitUntilStackExists"
         /\ backendErr[p] # NilErr
              => /\ pc[p] = "returned"
                 /\ result[p] = backendErr[p]
                 /\ i = Len(calls[p])
         /\ backendErr[p] = NilErr
              => /\ pc[p] \in {"exists", "returned"}
                 /\ pc[p] = "returned"
                      => /\ result[p] = NilErr
                         /\ Len(calls[p]) = i + 1

\* A create that succeeded and returned after the stack-exists wait.
C17_Witness ==
  \E p \in Callers :
    /\ pc[p] = "returned"
    /\ Issued(p, "CreateStack")
    /\ calls[p][Len(calls[p])].api = "WaitUntilStackExists"
    /\ result[p] = NilErr

\* C18: once UpdateStack has returned, with success or with an error,
\* UpsertStack has returned too: UpdateStack is the last backend call of the
\* call, no wait primitive and no other call follows it, and it was
\* submitted once.
C18_UpdateDoesNotWait ==
  \A p \in Callers : \A i \in PositionsOf(p, "UpdateStack") :
    /\ pc[p] = "returned"
    /\ i = Len(calls[p])
    /\ CountOf(p, "UpdateStack") = 1
    /\ ~Issued(p, "WaitUntilStackExists")
    /\ \A j \in DOMAIN calls[p] : calls[p][j].api \in Waiters => j < i - 1

\* An accepted update of a stack last seen complete: success is returned and
\* nothing was called after the submission.
C18_Witness ==
  \E p \in Callers :
    /\ pc[p] = "returned"
    /\ stackStatus[p] = "UPDATE_COMPLETE"
    /\ calls[p][Len(calls[p])].api = "UpdateStack"
    /\ backendErr[p] = NilErr
    /\ result[p] = NilErr

Submissions(p) == CountOf(p, "CreateStack") + CountOf(p, "UpdateStack")

\* What holds of the submissions of every UpsertStack call: never two, and
\* exactly one when the call has returned, with success (Done) or with the
\* submission's error (Failed).
OneAttempt(p) ==
  /\ Submissions(p) <= 1
  /\ pc[p] = "returned"
       => /\ Submissions(p) = 1
          /\ result[p] \in ErrOrNil

\* C19 (as claimed): every UpsertStack call ends in Done or Failed, never
\* otherwise, and has then issued exactly one mutation submission.
C19_OneAttemptThenDone ==
  \A p \in Callers :
    Upserting(p) => /\ pc[p] # "panic"
                    /\ OneAttempt(p)

\* What is left of C19: a call that has not panicked can always take its next
\* step, and a call that returns has issued exactly one submission.
C19_OneAttemptUnlessPanic ==
  \A p \in Callers :
    Upserting(p) => /\ OneAttempt(p)
                    /\ (InFlight(p) /\ ~Crashed) => ENABLED Step(p, Responses, ErrOrNil)
                    /\ pc[p] = "panic" => /\ Submissions(p) = 0
                                          /\ secondSeen[p] \in NotFoundKinds

\* C20: an AwaitFinalStatus call issues only DescribeStacks queries and wait
\* primitives, each naming nothing but the stack: at most two queries, at
\* most one wait, and no CreateStack, UpdateStack or other call.
C20_ResolverReadOnly ==
  \A p \in Callers :
    inp[p].op = "AwaitFinalStatus"
      => /\ \A i \in DOMAIN calls[p] :
              /\ calls[p][i].api \in {"DescribeStacks"} \cup Waiters
              /\ calls[p][i] = DescribeCall(calls[p][i].api, inp[p].stackName)
         /\ CountOf(p, "DescribeStacks") <= 2
         /\ WaitCount(p) <= 1
         /\ ~Submitted(p)

\* A direct call that used both queries and its one wait.
C20_Witness ==
  \E p \in Callers :
    /\ inp[p].op = "AwaitFinalStatus"
    /\ pc[p] = "returned"
    /\ CountOf(p, "DescribeStacks") = 2
    /\ WaitCount(p) = 1
    /\ stackStatus[p] = "ROLLBACK_COMPLETE"

====
